---- MODULE Spec2Model ----
(***************************************************************************)
(* Model of site_creator.py: the batch run of main() over the rows of      *)
(* sites.csv.  One action per external call of main's loop; the outcome    *)
(* of every external call (Mist API, Google geocoder, Google timezone) is  *)
(* chosen by the environment.                                              *)
(*                                                                         *)
(* Python values: a str-or-None field holds None as the string "None";     *)
(* an object-or-None value (dict, list, requests response) holds None as   *)
(* NoneObj.  A JSON value carries its Python type in the field `type`.     *)
(* An element of successful_sites / failed_sites is the body dict built    *)
(* in one loop iteration; `row` is the identity of that dict object (the   *)
(* iteration that built it), `body` its content.                           *)
(* `calls` is the history of the external calls issued so far, each with   *)
(* the row it was issued for and what the service answered.  rf_templates  *)
(* is the list get_rftemplate_by_name iterated, kept until the POST.       *)
(***************************************************************************)
EXTENDS Integers, Sequences, FiniteSets, TLC

VARIABLES site_data, pc, idx, api_verify, body, rf_templates, results,
          successful_sites, failed_sites, calls, summary, err

vars == <<site_data, pc, idx, api_verify, body, rf_templates, results,
          successful_sites, failed_sites, calls, summary, err>>

\* ---------------------------------------------------------------- bounds
MaxSites == 2
MaxTemplates == 2

\* ---------------------------------------------------------- Python values
None == "None"
NoneObj == [type |-> "NoneType"]

SetItem(d, k, v) == (k :> v) @@ d

SeqsUpTo(S, n) == UNION {[1..k -> S] : k \in 0..n}

\* ------------------------------------------------------------ input rows
Sites ==
  { [site_name |-> "HQ", site_address |-> "1 Infinite Loop"],
    [site_name |-> "Lab", site_address |-> "5 Rue Cler"] }
SiteTemplateNames == {"", "gold"}
PlatformTemplateNames == {"gold", "Gold"}

SiteRows ==
  { s @@ [rf_template_name |-> t] : s \in Sites, t \in SiteTemplateNames }

\* read_csv: the ordered list of row dicts of sites.csv
read_csv == SeqsUpTo(SiteRows, MaxSites)

\* ----------------------------------------------------- external services
\* What the Google geocoder knows about an address.
GeoOf(address) ==
  IF address = "1 Infinite Loop"
    THEN [address |-> "1 Infinite Loop, Cupertino, CA 95014, USA",
          lat |-> "37.33", lng |-> "-122.03", country |-> "US"]
    ELSE [address |-> "5 Rue Cler, 75007 Paris, France",
          lat |-> "48.85", lng |-> "2.30", country |-> "FR"]

\* What the Google timezone API knows about a location.
TimeZoneOf(lat, lng) ==
  IF lat = "37.33" /\ lng = "-122.03" THEN "America/Los_Angeles"
  ELSE IF lat = "48.85" /\ lng = "2.30" THEN "Europe/Paris"
  ELSE "Etc/UTC"

ConnectionError == [exception |-> "ConnectionError"]

\* geocoder.google(address): the query object; without a result its
\* attributes are None.  outcome "raise": the call raises.
GeocodeOutcomes == {"ok", "no_result", "raise"}

geocoder_google(address, outcome) ==
  IF outcome = "ok" THEN GeoOf(address)
  ELSE [address |-> None, lat |-> None, lng |-> None, country |-> None]

\* requests.get on the timezone URL: a response whose JSON has timeZoneId
\* for a valid location, an error status without it otherwise, or a raise.
TimezoneNet(lat, lng) ==
  { ConnectionError,
    IF lat = None \/ lng = None
      THEN [status |-> "INVALID_REQUEST"]
      ELSE [status |-> "OK", timeZoneId |-> TimeZoneOf(lat, lng)],
    [status |-> "OVER_QUERY_LIMIT"] }

\* Mist API answers
Response(code) == [status_code |-> code]
SelfNet == {ConnectionError, Response(200), Response(401)}
CreateNet == {ConnectionError, Response(200), Response(201), Response(400)}

TemplateId(k) == 100 + k
TemplateLists ==
  { [k \in 1..Len(names) |-> [name |-> names[k], id |-> TemplateId(k)]] :
      names \in SeqsUpTo(PlatformTemplateNames, MaxTemplates) }
TemplateNet ==
  {ConnectionError}
    \cup {[status_code |-> 200, json |-> [type |-> "list", items |-> l]] :
            l \in TemplateLists}
    \cup {[status_code |-> 404,
           json |-> [type |-> "dict", detail |-> "Not found."]]}

\* ------------------------------------------------------------ class Mist
\* http_get / http_post: an exception of requests is printed, the result is None
http_get(net) == IF "exception" \in DOMAIN net THEN NoneObj ELSE net

http_post(net) == IF "exception" \in DOMAIN net THEN NoneObj ELSE net

\* verify_self without the status test: any response counts as verified
verify_self_NoStatusCheck(net) ==
  LET response == http_get(net)
  IN IF response = NoneObj THEN "False" ELSE "True"

\* verify_self: True on 200; a missing response raises AttributeError inside
\* the try and gives False; any other status falls off the end (None).
verify_self(net) ==
  LET response == http_get(net)
  IN IF response = NoneObj THEN "False"
     ELSE IF response.status_code = 200 THEN "True"
     ELSE "None"

Truthy(v) == v = "True"

\* get_rf_templates: the JSON of the template list, None when .json() raises
get_rf_templates(net) ==
  LET response == http_get(net)
  IN IF response = NoneObj THEN NoneObj ELSE response.json

Lower(name) == IF name = "Gold" THEN "gold" ELSE name

\* the lookup comparing names without regard to case
FirstMatch_IgnoreCase(items, rf_template_name) ==
  LET hits == {k \in 1..Len(items) :
                 Lower(items[k].name) = Lower(rf_template_name)}
  IN IF hits = {} THEN 0
     ELSE CHOOSE k \in hits : \A j \in hits : k <= j

\* next(item for item in rf_templates if item["name"] == rf_template_name):
\* the index of the first item of that name, 0 when the generator is exhausted
FirstMatch(items, rf_template_name) ==
  LET hits == {k \in 1..Len(items) : items[k].name = rf_template_name}
  IN IF hits = {} THEN 0
     ELSE CHOOSE k \in hits : \A j \in hits : k <= j

\* get_rftemplate_by_name: the item, or the exception the lookup raises
get_rftemplate_by_name(net, rf_template_name) ==
  LET templates == get_rf_templates(net)
  IN IF templates.type # "list" THEN [raises |-> "TypeError"]
     ELSE LET k == FirstMatch(templates.items, rf_template_name)
          IN IF k = 0 THEN [raises |-> "StopIteration"]
             ELSE templates.items[k]

create_site(net) == http_post(net)

\* ------------------------------------------------------ module functions
get_google_timezone(net) ==
  IF "timeZoneId" \in DOMAIN net THEN net.timeZoneId ELSE None

\* get_google_geoinfo with lat and lng taken from each other's attribute
get_google_geoinfo_Swapped(address, outcome) ==
  IF outcome = "raise" THEN NoneObj
  ELSE LET gaddr == geocoder_google(address, outcome)
       IN [address |-> gaddr.address,
           latlng |-> [lat |-> gaddr.lng, lng |-> gaddr.lat],
           country_code |-> gaddr.country]

get_google_geoinfo(address, outcome) ==
  IF outcome = "raise" THEN NoneObj
  ELSE LET gaddr == geocoder_google(address, outcome)
       IN [address |-> gaddr.address,
           latlng |-> [lat |-> gaddr.lat, lng |-> gaddr.lng],
           country_code |-> gaddr.country]

\* ------------------------------------------------------------------ main
Call(op, row, outcome) == [op |-> op, row |-> row, outcome |-> outcome]

\* What the platform answered to the identity check.
SelfOutcome(net) ==
  IF "exception" \in DOMAIN net THEN "none"
  ELSE IF net.status_code = 200 THEN "200" ELSE "non200"

\* What the platform answered to the template-list GET, for this name.
TemplateOutcome(net, name) ==
  IF "exception" \in DOMAIN net \/ net.json.type # "list" THEN "nolist"
  ELSE IF \E k \in DOMAIN net.json.items : net.json.items[k].name = name
    THEN "match"
    ELSE "nomatch"

Init ==
  /\ site_data \in read_csv
  /\ pc = "verify"
  /\ idx = 1
  /\ api_verify = "False"
  /\ body = NoneObj
  /\ rf_templates = NoneObj
  /\ results = NoneObj
  /\ successful_sites = <<>>
  /\ failed_sites = <<>>
  /\ calls = <<>>
  /\ summary = <<>>
  /\ err = ""

\* lines 209-214: the credential check guards the whole loop and the report
VerifyCredentials ==
  /\ pc = "verify"
  /\ \E net \in SelfNet :
       /\ api_verify' = verify_self(net)
       /\ pc' = IF Truthy(verify_self(net)) THEN "geocode" ELSE "done"
       /\ calls' = Append(calls, Call("GET self", 0, SelfOutcome(net)))
  /\ UNCHANGED <<site_data, idx, body, rf_templates, results, successful_sites,
                 failed_sites, summary, err>>

\* lines 216-218: next row, geocode, body['name']
Geocode ==
  /\ pc = "geocode"
  /\ idx <= Len(site_data)
  /\ \E outcome \in GeocodeOutcomes :
       LET site == site_data[idx]
           geoinfo == get_google_geoinfo(site.site_address, outcome)
       IN /\ calls' = Append(calls, Call("geocode", idx, outcome))
          /\ IF geoinfo = NoneObj
               THEN /\ body' = geoinfo
                    /\ pc' = "crashed"
                    /\ err' = "TypeError"
               ELSE /\ body' = SetItem(geoinfo, "name", site.site_name)
                    /\ pc' = "timezone"
                    /\ err' = err
  /\ UNCHANGED <<site_data, idx, api_verify, rf_templates, results,
                 successful_sites, failed_sites, summary>>

\* the template lookup without the test of the template name
AfterTimezone_NoTest(site) == "template"

\* line 220: the template lookup happens only for a non-empty template name
AfterTimezone(site) ==
  IF site.rf_template_name # "" THEN "template" ELSE "create"

\* line 219 and the test of line 220
Timezone ==
  /\ pc = "timezone"
  /\ \E net \in TimezoneNet(body.latlng.lat, body.latlng.lng) :
       /\ body' = SetItem(body, "timezone", get_google_timezone(net))
       /\ calls' = Append(calls,
            Call("timezone", idx,
                 IF "timeZoneId" \in DOMAIN net THEN "ok" ELSE "fail"))
  /\ pc' = AfterTimezone(site_data[idx])
  /\ UNCHANGED <<site_data, idx, api_verify, rf_templates, results,
                 successful_sites, failed_sites, summary, err>>

\* line 221
Template ==
  /\ pc = "template"
  /\ \E net \in TemplateNet :
       LET name == site_data[idx].rf_template_name
           item == get_rftemplate_by_name(net, name)
       IN /\ rf_templates' = get_rf_templates(net)
          /\ calls' = Append(calls,
               Call("GET rftemplates", idx, TemplateOutcome(net, name)))
          /\ IF "raises" \in DOMAIN item
               THEN /\ pc' = "crashed"
                    /\ err' = item.raises
                    /\ body' = body
               ELSE /\ body' = SetItem(body, "rftemplate_id", item.id)
                    /\ pc' = "create"
                    /\ err' = err
  /\ UNCHANGED <<site_data, idx, api_verify, results, successful_sites,
                 failed_sites, summary>>

\* any 2xx status counted as success
IsSuccess_Any2xx(response) == response.status_code < 300

\* line 224
IsSuccess(response) == response.status_code = 200

\* lines 223-227
CreateSite ==
  /\ pc = "create"
  /\ \E net \in CreateNet :
       LET entry == [row |-> idx, body |-> body]
       IN /\ results' = create_site(net)
          /\ calls' = Append(calls,
               Call("POST sites", idx,
                    IF "exception" \in DOMAIN net THEN "none" ELSE "response"))
          /\ IF results' = NoneObj
               THEN /\ pc' = "crashed"
                    /\ err' = "AttributeError"
                    /\ UNCHANGED <<idx, successful_sites, failed_sites>>
               ELSE /\ pc' = "geocode"
                    /\ err' = err
                    /\ idx' = idx + 1
                    /\ IF IsSuccess(results')
                         THEN /\ successful_sites' = Append(successful_sites, entry)
                              /\ failed_sites' = failed_sites
                         ELSE /\ failed_sites' = Append(failed_sites, entry)
                              /\ successful_sites' = successful_sites
  /\ rf_templates' = NoneObj
  /\ UNCHANGED <<site_data, api_verify, body, summary>>

Names(sites) == [k \in 1..Len(sites) |-> sites[k].body.name]

\* the summary printed inside the loop, after each row
Report_InsideLoop ==
  /\ pc = "geocode"
  /\ summary' = <<"Successful sites: ">> \o Names(successful_sites)
                  \o <<"Failed Sites: ">> \o Names(failed_sites)
  /\ pc' = IF idx > Len(site_data) THEN "done" ELSE pc
  /\ UNCHANGED <<site_data, idx, api_verify, body, rf_templates, results,
                 successful_sites, failed_sites, calls, err>>

\* lines 229-234
Report ==
  /\ pc = "geocode"
  /\ idx > Len(site_data)
  /\ summary' = <<"Successful sites: ">> \o Names(successful_sites)
                  \o <<"Failed Sites: ">> \o Names(failed_sites)
  /\ pc' = "done"
  /\ UNCHANGED <<site_data, idx, api_verify, body, rf_templates, results,
                 successful_sites, failed_sites, calls, err>>

Next ==
  \/ VerifyCredentials
  \/ Geocode
  \/ Timezone
  \/ Template
  \/ CreateSite
  \/ Report

Spec == Init /\ [][Next]_vars

\* ================================================================ claims
N == Len(site_data)

Entries(sites) == {sites[k] : k \in DOMAIN sites}

Rows(sites) == {sites[k].row : k \in DOMAIN sites}

Classified == Rows(successful_sites) \cup Rows(failed_sites)

CountIn(sites, i) == Cardinality({k \in DOMAIN sites : sites[k].row = i})

Ended == pc \in {"done", "crashed"}

CallsOf(op, i) == {k \in DOMAIN calls : calls[k].op = op /\ calls[k].row = i}

\* the service answered `outcome` to the call `op` issued for row i
Answered(op, i, outcome) ==
  \E k \in DOMAIN calls :
    calls[k].op = op /\ calls[k].row = i /\ calls[k].outcome = outcome

\* the platform answered the identity check with 200
CredentialsAccepted == calls # <<>> /\ calls[1].outcome = "200"

\* the bodies handed to create_site so far, each with the row it was built for
Submitted ==
  Entries(successful_sites) \cup Entries(failed_sites)
    \cup (IF pc = "create" \/ (pc = "crashed" /\ err = "AttributeError")
            THEN {[row |-> idx, body |-> body]} ELSE {})

PreStages == {"geocode", "timezone", "GET rftemplates"}

CallFailed(c) ==
  \/ c.op = "geocode" /\ c.outcome # "ok"
  \/ c.op = "timezone" /\ c.outcome # "ok"
  \/ c.op = "GET rftemplates" /\ c.outcome # "match"

Increasing(sites) ==
  \A k, l \in DOMAIN sites : k < l => sites[k].row < sites[l].row

\* C1: when the credential check passes, main ends with every row classified
\* exactly once: len(successful_sites) + len(failed_sites) = N and each row
\* is in exactly one place of the two lists, whatever the external calls
\* answer.
C1_EveryRowClassifiedOnce ==
  (Ended /\ CredentialsAccepted) =>
    /\ Len(successful_sites) + Len(failed_sites) = N
    /\ \A i \in 1..N :
         CountIn(successful_sites, i) + CountIn(failed_sites, i) = 1

\* C2: unless the identity check was answered with 200, the run issues no
\* call but the identity check and both outcome lists stay empty; in every
\* run the identity-check GET precedes the first create_site POST.
C2_NoWorkWithoutCredentials ==
  /\ ~CredentialsAccepted =>
       /\ \A k \in DOMAIN calls : calls[k].op = "GET self"
       /\ successful_sites = <<>>
       /\ failed_sites = <<>>
       /\ summary = <<>>
  /\ \A k \in DOMAIN calls :
       calls[k].op = "POST sites" =>
         \E j \in 1..(k - 1) : calls[j].op = "GET self"

C2_Witness ==
  /\ pc = "done"
  /\ N >= 1
  /\ Len(calls) = 1
  /\ calls[1].outcome = "non200"

\* C3: a row whose template name matches no template of the returned list
\* (or for which no list is returned) does not crash the run: no create_site
\* POST is made for it, it ends in failed_sites, and the rows after it are
\* still processed.
C3_UnknownTemplateFailsRow ==
  \A k \in DOMAIN calls :
    (calls[k].op = "GET rftemplates" /\ calls[k].outcome # "match") =>
      LET i == calls[k].row
      IN /\ pc # "crashed"
         /\ CallsOf("POST sites", i) = {}
         /\ idx > i => i \in Rows(failed_sites)
         /\ Ended => idx > N

\* C4: a failure of a stage before submission (geocode, timezone, template
\* resolution) routes the row to failed_sites and the loop goes on with the
\* next row; it never aborts the run.
C4_EarlyFailureFailsRow ==
  \A k \in DOMAIN calls :
    (calls[k].op \in PreStages /\ CallFailed(calls[k])) =>
      LET i == calls[k].row
      IN /\ ~(pc = "crashed" /\ idx = i)
         /\ i \notin Rows(successful_sites)
         /\ idx > i => i \in Rows(failed_sites)
         /\ Ended => idx > N

\* C5: create_site is issued at most once per row, and a failed create_site
\* call (a non-200 response, or a transport failure that yields no response)
\* ends that row only: the row is in failed_sites and the run goes on.
C5_FailedPostEndsRowOnly ==
  /\ \A i \in 1..N : Cardinality(CallsOf("POST sites", i)) <= 1
  /\ (results # NoneObj /\ results.status_code # 200) =>
       (idx - 1) \in Rows(failed_sites)
  /\ \A k \in DOMAIN calls :
       (calls[k].op = "POST sites" /\ calls[k].outcome = "none") =>
         /\ pc # "crashed"
         /\ idx > calls[k].row => calls[k].row \in Rows(failed_sites)

\* C6: for a row with an empty template name no template-list GET is issued
\* and the body handed to create_site has no rftemplate_id key; for a row
\* with a template name that resolves, the body's rftemplate_id is the id of
\* the first template of the returned list whose name equals it exactly.
C6_TemplateIdOnlyWhenNamed ==
  /\ \A i \in 1..N :
       site_data[i].rf_template_name = "" => CallsOf("GET rftemplates", i) = {}
  /\ \A e \in Submitted :
       ("rftemplate_id" \in DOMAIN e.body)
         <=> site_data[e.row].rf_template_name # ""
  /\ (pc = "create" /\ site_data[idx].rf_template_name # "") =>
       /\ rf_templates.type = "list"
       /\ \E k \in DOMAIN rf_templates.items :
            /\ rf_templates.items[k].name = site_data[idx].rf_template_name
            /\ rf_templates.items[k].id = body.rftemplate_id
            /\ \A j \in 1..(k - 1) :
                 rf_templates.items[j].name # site_data[idx].rf_template_name

C6_Witness ==
  /\ pc = "create"
  /\ idx = 2
  /\ site_data[1].rf_template_name = ""
  /\ site_data[2].rf_template_name = "gold"
  /\ 1 \in Classified
  /\ Len(rf_templates.items) = 2
  /\ rf_templates.items[1].name = "Gold"
  /\ body.rftemplate_id = rf_templates.items[2].id

\* C7: the body handed to create_site has the row's own site_name, the
\* address, latlng and country_code of the row's own geocode result and the
\* timezone of that same lat/lng, and no key built for another row.
C7_BodyFromOwnRow ==
  \A e \in Submitted :
    LET site == site_data[e.row]
        geo == GeoOf(site.site_address)
        geo_ok == Answered("geocode", e.row, "ok")
        tz_ok == Answered("timezone", e.row, "ok")
    IN /\ DOMAIN e.body =
            {"address", "latlng", "country_code", "name", "timezone"}
              \cup (IF site.rf_template_name # "" THEN {"rftemplate_id"} ELSE {})
       /\ e.body.name = site.site_name
       /\ geo_ok =>
            /\ e.body.address = geo.address
            /\ e.body.latlng = [lat |-> geo.lat, lng |-> geo.lng]
            /\ e.body.country_code = geo.country
       /\ (geo_ok /\ tz_ok) => e.body.timezone = TimeZoneOf(geo.lat, geo.lng)

C7_Witness ==
  /\ Len(successful_sites) = 2
  /\ site_data[1].site_address # site_data[2].site_address
  /\ site_data[1].rf_template_name # ""
  /\ site_data[2].rf_template_name = ""
  /\ successful_sites[1].body.timezone = "America/Los_Angeles"
  /\ successful_sites[2].body.timezone = "Europe/Paris"

\* C8: rows are processed one at a time in input order; within a row the
\* calls are geocode, timezone, template-list GET (only for a row with a
\* template name), create_site POST, each right after the one before it; a
\* row's geocode follows the POST of the row before it, which by then is in
\* successful_sites or failed_sites.
C8_CallsInOrder ==
  \A k \in DOMAIN calls :
    LET c == calls[k]
        i == c.row
        Follows(op, row) ==
          k > 1 /\ calls[k - 1].op = op /\ calls[k - 1].row = row
    IN /\ c.op = "GET self" => k = 1
       /\ c.op = "geocode" =>
            /\ i \in 1..N
            /\ IF i = 1 THEN Follows("GET self", 0)
               ELSE /\ Follows("POST sites", i - 1)
                    /\ CountIn(successful_sites, i - 1)
                         + CountIn(failed_sites, i - 1) = 1
       /\ c.op = "timezone" => Follows("geocode", i)
       /\ c.op = "GET rftemplates" =>
            /\ Follows("timezone", i)
            /\ site_data[i].rf_template_name # ""
       /\ c.op = "POST sites" =>
            IF site_data[i].rf_template_name # ""
              THEN Follows("GET rftemplates", i)
              ELSE Follows("timezone", i)

C8_Witness ==
  /\ pc = "done"
  /\ N = 2
  /\ site_data[1].rf_template_name # ""
  /\ site_data[2].rf_template_name = ""
  /\ Len(calls) = 8

\* the response in `results` is the one to the POST of row idx - 1
C9_Classified ==
  results # NoneObj =>
    LET i == idx - 1
    IN IF results.status_code = 200
         THEN CountIn(successful_sites, i) = 1 /\ CountIn(failed_sites, i) = 0
         ELSE CountIn(failed_sites, i) = 1 /\ CountIn(successful_sites, i) = 0

C9_Terminal ==
  /\ \A k \in DOMAIN successful_sites :
       k \in DOMAIN successful_sites' /\ successful_sites'[k] = successful_sites[k]
  /\ \A k \in DOMAIN failed_sites :
       k \in DOMAIN failed_sites' /\ failed_sites'[k] = failed_sites[k]
  /\ \A k \in DOMAIN calls' :
       (k \notin DOMAIN calls /\ calls'[k].op = "POST sites")
         => calls'[k].row \notin Classified

\* C9: a row whose create_site POST returned a response is appended to
\* successful_sites if and only if the status is exactly 200, to failed_sites
\* otherwise; an appended outcome is never moved, removed or re-submitted.
C9_StatusDecidesOutcome == []C9_Classified /\ [][C9_Terminal]_vars

C9_Witness ==
  /\ pc = "done"
  /\ Rows(successful_sites) = {1}
  /\ Rows(failed_sites) = {2}
  /\ results = Response(201)

\* C10: successful_sites and failed_sites are disjoint, each in input order,
\* together they hold exactly the rows whose create_site POST returned a
\* response, and the summary is printed only after the last row.
C10_OutcomeLists ==
  /\ Rows(successful_sites) \cap Rows(failed_sites) = {}
  /\ Increasing(successful_sites)
  /\ Increasing(failed_sites)
  /\ Classified =
       {calls[k].row : k \in {j \in DOMAIN calls :
            calls[j].op = "POST sites" /\ calls[j].outcome = "response"}}
  /\ summary # <<>> => (idx > N /\ Classified = 1..N)

C10_Witness ==
  /\ summary # <<>>
  /\ N = 2
  /\ Rows(successful_sites) = {2}
  /\ Rows(failed_sites) = {1}

====
